---- MODULE Spec2Model ----
(***************************************************************************)
(* The selector-resolution engine of EntitySelect: the registry of         *)
(* selector classes, the per-view ViewData records, match_entity and the   *)
(* before/after callback chains (src/src/EntitySelector.py), with the      *)
(* callbacks DocLink and StatusIdentifier register on those chains.        *)
(*                                                                         *)
(* The host editor is modelled by a buffer of text points 0..MaxPoint with *)
(* a fixed scope name at each point, a selection per view and the regions  *)
(* and status entries the plugin draws.  Every handler runs to completion  *)
(* in one step; `last` is a history variable describing the most recent    *)
(* handler invocation (its events in order, how it ended, and the record   *)
(* of the view before it ran).                                             *)
(***************************************************************************)
EXTENDS Integers, Sequences, FiniteSets, TLC

\* ---------------------------------------------------------------- bounds
MaxPoint == 2
MaxSel == 2
MaxRegistry == 2
MaxCallbacks == 1

\* ------------------------------------------------------------ the host
ViewSeq == <<1>>

Views == {ViewSeq[i] : i \in 1..Len(ViewSeq)}

Points == 0..MaxPoint

\* sublime.Region, normalised to <<begin, end>>
Regions == {r \in Points \X Points : r[1] <= r[2]}

begin(r) == r[1]

end(r) == r[2]

empty(r) == r[1] = r[2]

\* Region.contains(region)
contains(r, s) == begin(r) <= begin(s) /\ end(s) <= end(r)

\* The values view.sel() can hold: sorted, disjoint regions (possibly none).
Selections ==
    {s \in UNION {[1..n -> Regions] : n \in 0..MaxSel} :
        \A i \in 1..(Len(s) - 1) : end(s[i]) < begin(s[i + 1])}

\* view.scope_name(pt): the raw string, kept as the list of the pieces that
\* split(' ') yields; the host ends every scope name with a blank, hence the
\* trailing empty piece.
scope_name(pt) ==
    CASE pt = 0 -> <<"text.b", "entity.x", "">>
      [] pt = 1 -> <<"source.a", "entity.x", "">>
      [] pt = 2 -> <<"source.a", "entity.x", "entity.y", "">>
      [] OTHER -> <<"source.a", "">>

\* str.strip() on a scope name: drops the blank pieces at both ends.
RECURSIVE strip(_)
strip(s) ==
    IF s = <<>> THEN <<>>
    ELSE IF Head(s) = "" THEN strip(Tail(s))
    ELSE IF s[Len(s)] = "" THEN strip(SubSeq(s, 1, Len(s) - 1))
    ELSE s

\* view.score_selector(pt, selector) for a one-token selector: 0 when the
\* token is not on the scope stack at pt, larger the deeper it matches.
score_selector(pt, selector) ==
    LET sn == scope_name(pt)
        hits == {i \in 1..Len(sn) : sn[i] = selector}
    IN IF hits = {} THEN 0 ELSE CHOOSE i \in hits : \A j \in hits : j <= i

\* ------------------------------------------------- the selector classes
\* Three concrete selector classes, as an extending plugin would define them.
Classes == {"Doc", "Hl", "Sid"}

\* A selector class that extends PreemptiveHighlight (a Highlight); it is
\* registered by PreemptiveHighlight.add_possible_selector.
PreemptiveClasses == {"Ph"}

\* The base class each one extends.
Base(c) ==
    CASE c = "Doc" -> "DocLink"
      [] c = "Hl" -> "Highlight"
      [] c = "Sid" -> "StatusIdentifier"
      [] c = "Ph" -> "Highlight"

scope_view_enabler(c) ==
    CASE c = "Doc" -> "source.a"
      [] c = "Hl" -> "entity.y"
      [] c = "Sid" -> "source.a"
      [] c = "Ph" -> "source.a"

scope_selection_enabler(c) ==
    CASE c = "Doc" -> "entity.x"
      [] c = "Hl" -> "entity.y"
      [] c = "Sid" -> "entity.x"
      [] c = "Ph" -> "entity.y"

\* Sid keeps EntitySelector.enable_for_selection; Doc and Hl override it.
KeepsDefaultEnable(c) == c = "Sid"

\* Position of the class name in string order
\* ("Doc" < "Hl" < "Ph" < "Sid").
NameRank(c) ==
    CASE c = "Doc" -> 1
      [] c = "Hl" -> 2
      [] c = "Ph" -> 3
      [] c = "Sid" -> 4

\* SortableABCMeta.__lt__: other.__repr__() on a class is an unbound call and
\* raises TypeError, so the names are compared.
ClassLt(c, d) == NameRank(c) < NameRank(d)

\* repr(c), the piece str(list) shows for a class.
ClassRepr(c) ==
    CASE c = "Doc" -> "<class 'plugin.Doc'>"
      [] c = "Hl" -> "<class 'plugin.Hl'>"
      [] c = "Sid" -> "<class 'plugin.Sid'>"
      [] c = "Ph" -> "<class 'plugin.Ph'>"

\* isinstance(selector, base) for an instance of class c.
IsInstance(c, base) == Base(c) = base

\* The entity of the buffer at a text point: the region an overriding
\* enable_for_selection names as search_region.
EntityAt(pt) == IF pt <= 1 THEN <<0, 1>> ELSE <<2, MaxPoint>>

\* What the searches of the highlighters find in the buffer: the entities of
\* the buffer in text order, nothing, or an empty match at point 2 followed
\* by the first entity.
Buffers == {<<<<0, 1>>, <<2, MaxPoint>>>>, <<>>, <<<<2, 2>>, <<0, 1>>>>}

BufferAtStart == <<<<0, 1>>, <<2, MaxPoint>>>>

\* A callback an extending plugin registers at run time.
UserCallbacks == {"f"}

\* ----------------------------------------------------------------- state
VARIABLES
    sel,                 \* view.sel() of each view
    is_widget,           \* view.settings().get('is_widget') of each view
    doc_link,            \* the regions drawn under 'doc_link' in each view
    status,              \* the status entry '_status_identifier' of each view
    hl_status,           \* the status entry 'entity_select_num_highlights'
    PossibleSelectors,   \* EntitySelector.PossibleSelectors
    OnBeforeCheckCallbacks, \* EntitySelector.OnBeforeCheckCallbacks
    OnAfterCheckCallbacks,  \* EntitySelector.OnAfterCheckCallbacks
    ViewSelectors,       \* EntitySelector.ViewSelectors: view id -> ViewData
    Highlighters,        \* Highlight.Highlighters: view id -> instance or None
    heap,                \* the selector instances alive, by identity
    hl_regions,          \* the regions drawn under 'entity_select_highlight'
    found,               \* what a highlighter's search finds in the buffer
    PreemptiveHighlighters, \* PreemptiveHighlight.PreemptiveHighlighters
    last                 \* history: the most recent handler invocation

vars == <<sel, is_widget, doc_link, status, hl_status, PossibleSelectors,
          OnBeforeCheckCallbacks, OnAfterCheckCallbacks, ViewSelectors,
          Highlighters, heap, hl_regions, found, PreemptiveHighlighters,
          last>>

\* The state only the highlight commands and the buffer touch
highlight_vars == <<hl_regions, found, PreemptiveHighlighters>>

\* None, as an instance reference.
None == 0

EmptyDict == [x \in {} |-> None]

\* An erased status entry.
NoStatus == "<erased>"

\* dict[key] = value
DictSet(d, k, x) == [y \in DOMAIN d \cup {k} |-> IF y = k THEN x ELSE d[y]]

\* The part of the state a handler works on while it runs: it is threaded
\* through the steps of the handler, `events` collecting what happened and
\* `made` the instances constructed so far.
Frame ==
    [ViewSelectors |-> ViewSelectors, heap |-> heap, doc_link |-> doc_link,
     status |-> status, hl_status |-> hl_status, events |-> <<>>, made |-> {},
     Highlighters |-> Highlighters, hl_regions |-> hl_regions]

Ev(kind, name, cls, selector, truthy) ==
    [kind |-> kind, name |-> name, cls |-> cls, selector |-> selector,
     truthy |-> truthy]

Log(st, e) == [st EXCEPT !.events = Append(@, e)]

\* ------------------------------------------------------------- ViewData
\* ViewData.scope_from_view: the first piece of the scope name at the first
\* selection, or at point 0 when view.sel()[0] raises IndexError.
scope_from_view(v) ==
    IF sel[v] = <<>> THEN scope_name(0)[1]
    ELSE scope_name(begin(sel[v][1]))[1]

\* str(EntitySelector.PossibleSelectors)
StrOfList(registry) == [i \in 1..Len(registry) |-> ClassRepr(registry[i])]

\* ViewData.get_possible_selectors_hash: hash(str(...)); the 64-bit hash is
\* kept as the string it hashes (no collisions).
get_possible_selectors_hash == StrOfList(PossibleSelectors)

\* A view score that looks at the first selection alone
check_scope_for_view_FirstOnly(c, v) ==
    IF sel[v] = <<>> THEN score_selector(0, scope_view_enabler(c))
    ELSE score_selector(begin(sel[v][1]), scope_view_enabler(c))

\* EntitySelector.check_scope_for_view: the best score over the selections,
\* or the score at point 0 when max() of no selection raises ValueError.
check_scope_for_view(c, v) ==
    IF sel[v] = <<>> THEN score_selector(0, scope_view_enabler(c))
    ELSE LET scores == {score_selector(begin(sel[v][i]), scope_view_enabler(c)) :
                            i \in 1..Len(sel[v])}
         IN CHOOSE m \in scores : \A n \in scores : n <= m

\* EntitySelector.enable_for_view (no class of the model overrides it)
enable_for_view(c, v) == TRUE

\* The list ViewData.update_possible_selectors computes.
FreshPossibleSelectors(v) ==
    LET Keep(c) == check_scope_for_view(c, v) > 0 /\ enable_for_view(c, v)
    IN SelectSeq(PossibleSelectors, Keep)

\* ViewData.update_possible_selectors, on the record vd
update_possible_selectors(vd, v) ==
    [vd EXCEPT !.possible_selectors_hash = get_possible_selectors_hash,
               !.possible_selectors = FreshPossibleSelectors(v)]

\* ViewData.__init__
NewViewData(v, selector) ==
    update_possible_selectors(
        [scope |-> scope_from_view(v), selector |-> selector,
         possible_selectors_hash |-> <<>>, possible_selectors |-> <<>>], v)

\* A staleness test that forgets the registry fingerprint
CacheIsStale_ScopeOnly(vd, v) == vd.scope # scope_from_view(v)

\* Whether ViewData.get_possible_selectors_for_view recomputes the list.
CacheIsStale(vd, v) ==
    \/ vd.scope # scope_from_view(v)
    \/ vd.possible_selectors_hash # get_possible_selectors_hash

\* ViewData.get_possible_selectors_for_view: the record afterwards (the list
\* it returns is the record's possible_selectors).
ViewData_get_possible_selectors_for_view(vd, v) ==
    IF CacheIsStale(vd, v)
    THEN update_possible_selectors([vd EXCEPT !.scope = scope_from_view(v)], v)
    ELSE vd

\* ------------------------------------------------------- EntitySelector
\* EntitySelector.get_selector_for_view
get_selector_for_view(st, v) ==
    IF v \in DOMAIN st.ViewSelectors THEN st.ViewSelectors[v].selector ELSE None

\* An update that stores the selector in the record of every view
update_selector_for_view_AllViews(st, v, selector) ==
    [st EXCEPT !.ViewSelectors =
        [w \in DOMAIN st.ViewSelectors \cup {v} |->
            IF w \in DOMAIN st.ViewSelectors
            THEN [st.ViewSelectors[w] EXCEPT !.selector = selector]
            ELSE NewViewData(v, selector)]]

\* EntitySelector.update_selector_for_view
update_selector_for_view(st, v, selector) ==
    IF v \in DOMAIN st.ViewSelectors
    THEN [st EXCEPT !.ViewSelectors[v].selector = selector]
    ELSE [st EXCEPT !.ViewSelectors = DictSet(@, v, NewViewData(v, selector))]

\* EntitySelector.get_possible_selectors_for_view: the frame afterwards (a
\* view without a record raises KeyError and gets the empty list)
get_possible_selectors_for_view(st, v) ==
    IF v \notin DOMAIN st.ViewSelectors THEN st
    ELSE LET st1 == [st EXCEPT !.ViewSelectors[v] =
                        ViewData_get_possible_selectors_for_view(@, v)]
         IN IF CacheIsStale(st.ViewSelectors[v], v)
            THEN Log(st1, Ev("update_possible_selectors", "", "", None, TRUE))
            ELSE st1

\* ... and the list it returns
PossibleSelectorsOf(st, v) ==
    IF v \in DOMAIN st.ViewSelectors
    THEN st.ViewSelectors[v].possible_selectors
    ELSE <<>>

\* EntitySelector.check_scope_for_selection(view)[0]; the caller has made
\* sure view.sel()[0] exists.
check_scope_for_selection(c, v) ==
    score_selector(begin(sel[v][1]), scope_selection_enabler(c))

\* A sort that forgets reverse = True: the comparison the other way round
TupleLt_Ascending(x, y) ==
    y[1] < x[1] \/ (x[1] = y[1] /\ x[2] # y[2] /\ ClassLt(y[2], x[2]))

\* (score, class) tuples as list.sort compares them
TupleLt(x, y) == x[1] < y[1] \/ (x[1] = y[1] /\ x[2] # y[2] /\ ClassLt(x[2], y[2]))

\* selectors.sort(reverse = True): insertion of x into a list in descending
\* order, after the entries that are not below it
RECURSIVE InsertDesc(_, _)
InsertDesc(x, s) ==
    IF s = <<>> THEN <<x>>
    ELSE IF TupleLt(Head(s), x) THEN <<x>> \o s
    ELSE <<Head(s)>> \o InsertDesc(x, Tail(s))

RECURSIVE SortDesc(_)
SortDesc(s) ==
    IF s = <<>> THEN <<>>
    ELSE InsertDesc(s[Len(s)], SortDesc(SubSeq(s, 1, Len(s) - 1)))

\* A sorted list that keeps the classes that score 0
sorted_selectors_for_selection_Unfiltered(possible, v) ==
    LET scored == [i \in 1..Len(possible) |->
                      <<check_scope_for_selection(possible[i], v), possible[i]>>]
        sorted == SortDesc(scored)
    IN [i \in 1..Len(sorted) |-> sorted[i][2]]

\* EntitySelector.sorted_selectors_for_selection, given the possible list
sorted_selectors_for_selection(possible, v) ==
    LET Pos(c) == check_scope_for_selection(c, v) > 0
        kept == SelectSeq(possible, Pos)
        scored == [i \in 1..Len(kept) |->
                      <<check_scope_for_selection(kept[i], v), kept[i]>>]
        sorted == SortDesc(scored)
    IN [i \in 1..Len(sorted) |-> sorted[i][2]]

\* The last piece of a stripped scope name: start_scope.split(' ')[-1]
LastPiece(s) == IF s = <<>> THEN "" ELSE s[Len(s)]

\* A test of one region without the look at its last character
RegionScopeOk_NoFallback(s) ==
    strip(scope_name(end(s))) = strip(scope_name(begin(s)))

\* check_regions, the test of one selection region (lines 303-308)
RegionScopeOk(s) ==
    LET start_scope == strip(scope_name(begin(s)))
    IN \/ strip(scope_name(end(s))) = start_scope
       \/ /\ ~empty(s)
          /\ strip(scope_name(end(s) - 1)) = start_scope

\* EntitySelector.check_regions: the loop returns False at the first region
\* that fails its test or whose last scope piece differs from the first
\* region's.
check_regions(v) ==
    /\ \A i \in 1..Len(sel[v]) : RegionScopeOk(sel[v][i])
    /\ \A i \in 1..Len(sel[v]) :
          LastPiece(strip(scope_name(begin(sel[v][i]))))
              = LastPiece(strip(scope_name(begin(sel[v][1]))))

\* selector.regions: base instances keep the view's own Selection object
\* (self.regions = view.sel()), the others a list of their own.
InstRegions(st, id) ==
    IF st.heap[id].alias THEN sel[st.heap[id].view] ELSE st.heap[id].regions

\* A comparison that looks at the scope score alone
compare_current_selection_ScoreOnly(st, id, v) ==
    check_scope_for_selection(st.heap[id].cls, v) > 0

\* A comparison that checks every selection, as check_all_regions = True does
compare_current_selection_AllRegions(st, id, v) ==
    /\ \A k \in 1..Len(sel[v]) :
           score_selector(begin(sel[v][k]),
                          scope_selection_enabler(st.heap[id].cls)) > 0
    /\ \A k \in 1..Len(sel[v]) :
           \E i \in 1..Len(InstRegions(st, id)) :
               contains(InstRegions(st, id)[i], sel[v][k])

\* EntitySelector.compare_current_selection(view); the caller has made sure
\* view.sel()[0] exists.
compare_current_selection(st, id, v) ==
    /\ check_scope_for_selection(st.heap[id].cls, v) > 0
    /\ \E i \in 1..Len(InstRegions(st, id)) :
           contains(InstRegions(st, id)[i], sel[v][1])

\* The identity of a new object: one no object alive before or during the
\* handler has.
FreshId(st) ==
    LET used == DOMAIN heap \cup DOMAIN st.heap \cup st.made
    IN CHOOSE n \in 1..(Cardinality(used) + 1) :
           n \notin used /\ \A m \in 1..(n - 1) : m \in used

\* EntitySelector.__init__: the instance self, with self.regions as given,
\* becomes the selector of the view.
EntitySelector_init(st, v, c, alias, regions) ==
    LET self == FreshId(st)
        inst == [cls |-> c, view |-> v, alias |-> alias, regions |-> regions,
                 highlight_regions |-> <<>>]
        st1 == [st EXCEPT !.heap = DictSet(@, self, inst),
                          !.made = @ \cup {self}]
        st2 == update_selector_for_view(st1, v, self)
    IN Log(st2, Ev("construct", c, c, self, TRUE))

\* DocLink.selection_in_region
selection_in_region(v, region) ==
    \E i \in 1..Len(sel[v]) : contains(region, sel[v][i])

\* c(view, **kw): the constructor of the class's base, kw either empty or
\* <<search_region>>.  StatusIdentifier keeps the regions EntitySelector's
\* constructor set; DocLink constructs nothing it registers when no selection
\* lies in search_region; Highlight and DocLink store [search_region].
Construct(st, v, c, kw) ==
    CASE Base(c) = "StatusIdentifier" -> EntitySelector_init(st, v, c, TRUE, <<>>)
      [] Base(c) = "DocLink" ->
            IF kw # <<>> /\ ~selection_in_region(v, kw[1])
            THEN st
            ELSE EntitySelector_init(st, v, c, FALSE, kw)
      [] Base(c) = "Highlight" -> EntitySelector_init(st, v, c, FALSE, kw)

\* ------------------------------------------------------------ callbacks
\* Highlight.get_highlighter_for_view
get_highlighter_for_view(v) ==
    IF v \in DOMAIN Highlighters THEN Highlighters[v] ELSE None

\* Highlight.get_highlight_regions, as a subclass defines it: the regions its
\* search finds in the buffer as it is now.
get_highlight_regions(id) == found

\* Region.intersects(region)
intersects(r, s) ==
    \/ (begin(r) = begin(s) /\ end(r) = end(s))
    \/ (begin(r) < end(s) /\ begin(s) < end(r))

\* Highlight.display_status_string(view = v): the status entry afterwards;
\* <<>> is an erased entry, <<current, total>> a shown one (current 0 for
\* None).  view.sel()[0] raising IndexError leaves the entry as it is (the
\* chain catches it).
Highlight_display_status_string(st, v) ==
    LET highlighter == get_highlighter_for_view(v)
        hr == get_highlight_regions(highlighter)
        hits == {i \in 1..Len(hr) : intersects(hr[i], sel[v][1])}
        current == IF hits = {} THEN 0
                   ELSE CHOOSE i \in hits : \A j \in hits : i <= j
    IN IF highlighter = None THEN [st EXCEPT !.hl_status[v] = <<>>]
       ELSE IF sel[v] = <<>> THEN st
       ELSE [st EXCEPT !.hl_status[v] = <<current, Len(hr)>>]

\* Callbacks of which DocLink.erase_regions erases nothing
CallCallback_NoErase(cb, st, v, selector) ==
    CASE cb = "DocLink.erase_regions" -> st
      [] cb = "StatusIdentifier.erase_status_string" ->
            [st EXCEPT !.status[v] = NoStatus]
      [] cb = "DocLink.add_regions" ->
            IF selector # None /\ IsInstance(st.heap[selector].cls, "DocLink")
            THEN [st EXCEPT !.doc_link[v] = InstRegions(st, selector)]
            ELSE st
      [] cb = "Highlight.display_status_string" ->
            Highlight_display_status_string(st, v)
      [] cb = "StatusIdentifier.display_status_string" ->
            IF selector # None
               /\ IsInstance(st.heap[selector].cls, "StatusIdentifier")
            THEN [st EXCEPT !.status[v] = "None"]
            ELSE st
      [] OTHER -> st

\* One callback called with cls, selector and view: what it does to the view.
\* The callbacks of other plugins (UserCallbacks) touch nothing modelled here.
CallCallback(cb, st, v, selector) ==
    CASE cb = "DocLink.erase_regions" -> [st EXCEPT !.doc_link[v] = <<>>]
      [] cb = "StatusIdentifier.erase_status_string" ->
            [st EXCEPT !.status[v] = NoStatus]
      [] cb = "DocLink.add_regions" ->
            IF selector # None /\ IsInstance(st.heap[selector].cls, "DocLink")
            THEN [st EXCEPT !.doc_link[v] = InstRegions(st, selector)]
            ELSE st
      [] cb = "Highlight.display_status_string" ->
            Highlight_display_status_string(st, v)
      [] cb = "StatusIdentifier.display_status_string" ->
            IF selector # None
               /\ IsInstance(st.heap[selector].cls, "StatusIdentifier")
            THEN [st EXCEPT !.status[v] = "None"]
            ELSE st
      [] OTHER -> st

\* A chain run from its last callback to its first
RECURSIVE RunChain_Reversed(_, _, _, _, _, _)
RunChain_Reversed(kind, chain, st, v, cls, selector) ==
    IF chain = <<>> THEN st
    ELSE RunChain_Reversed(kind, SubSeq(chain, 1, Len(chain) - 1),
                  Log(CallCallback(chain[Len(chain)], st, v, selector),
                      Ev(kind, chain[Len(chain)], cls, selector, TRUE)),
                  v, cls, selector)

\* The loop of run_on_before_check_callbacks / run_on_after_check_callbacks:
\* every callback of the chain, in list order, with the same cls and selector.
RECURSIVE RunChain(_, _, _, _, _, _)
RunChain(kind, chain, st, v, cls, selector) ==
    IF chain = <<>> THEN st
    ELSE RunChain(kind, Tail(chain),
                  Log(CallCallback(Head(chain), st, v, selector),
                      Ev(kind, Head(chain), cls, selector, TRUE)),
                  v, cls, selector)

\* A cls argument that is the base class whatever the selector
ClsArg_AlwaysBase(st, selector) == "EntitySelector"

\* The cls argument the chains pass for a selector
ClsArg(st, selector) ==
    IF selector = None THEN "EntitySelector" ELSE st.heap[selector].cls

\* EntitySelector.run_on_before_check_callbacks
run_on_before_check_callbacks(st, v) ==
    LET selector == get_selector_for_view(st, v)
    IN RunChain("before", OnBeforeCheckCallbacks, st, v,
                ClsArg(st, selector), selector)

\* EntitySelector.run_on_after_check_callbacks
run_on_after_check_callbacks(st, v) ==
    LET selector == get_selector_for_view(st, v)
    IN RunChain("after", OnAfterCheckCallbacks, st, v,
                ClsArg(st, selector), selector)

\* --------------------------------------------------------- match_entity
\* What a handler hands back: the frame it leaves and how it ended ("return"
\* or the exception that left it).
Ended(st, outcome) == [st |-> st, outcome |-> outcome]

\* enable_for_selection of class c: the default constructs c(view) and returns
\* True; an override answers either something falsy (en[c] false) or the
\* keyword arguments {'search_region': the entity at the first selection}.
\* The loop of match_entity (lines 285-289) over the sorted classes: the
\* first truthy answer is passed on as keyword arguments to c(view, **kwargs),
\* and c(view, **True) raises TypeError.
RECURSIVE ResolutionLoop(_, _, _, _)
ResolutionLoop(st, classes, v, en) ==
    IF classes = <<>> THEN Ended(st, "return")
    ELSE LET c == Head(classes)
         IN IF KeepsDefaultEnable(c)
            THEN Ended(Log(Log(Construct(st, v, c, <<>>),
                               Ev("enable", c, c, None, TRUE)),
                           Ev("activate", c, c, None, TRUE)),
                       "TypeError")
            ELSE IF ~en[c]
            THEN ResolutionLoop(Log(st, Ev("enable", c, c, None, FALSE)),
                                Tail(classes), v, en)
            ELSE Ended(Construct(Log(Log(st, Ev("enable", c, c, None, TRUE)),
                                     Ev("activate", c, c, None, TRUE)),
                                 v, c, <<EntityAt(begin(sel[v][1]))>>),
                       "return")

\* A preparation that stores the selector the view already has
PrepareForNewSelector_Keep(st, v) ==
    update_selector_for_view(st, v, get_selector_for_view(st, v))

\* match_entity line 279, "Prepare for a new selector":
\* EntitySelector.update_selector_for_view(view) with selector = None
PrepareForNewSelector(st, v) == update_selector_for_view(st, v, None)

\* A resolution that runs the after-check chain ahead of the loop
Resolve_AfterBeforeLoop(st, v, en) ==
    LET st1 == Log(PrepareForNewSelector(st, v),
                   Ev("reset", "", "", None, TRUE))
        st2 == run_on_before_check_callbacks(st1, v)
        st3 == get_possible_selectors_for_view(st2, v)
        possible == PossibleSelectorsOf(st3, v)
        loop == ResolutionLoop(
                    Log(run_on_after_check_callbacks(st3, v),
                        Ev("resolve", "", "", None, TRUE)),
                    sorted_selectors_for_selection(possible, v), v, en)
    IN IF ~check_regions(v)
       THEN Ended(Log(st2, Ev("check_regions", "", "", None, FALSE)), "return")
       ELSE IF possible # <<>> /\ sel[v] = <<>>
       THEN Ended(st3, "IndexError")
       ELSE loop

\* match_entity from "Prepare for a new selector" on (lines 278-291)
Resolve(st, v, en) ==
    LET st1 == Log(PrepareForNewSelector(st, v),
                   Ev("reset", "", "", None, TRUE))
        st2 == run_on_before_check_callbacks(st1, v)
        st3 == get_possible_selectors_for_view(st2, v)
        possible == PossibleSelectorsOf(st3, v)
        loop == ResolutionLoop(Log(st3, Ev("resolve", "", "", None, TRUE)),
                    sorted_selectors_for_selection(possible, v), v, en)
    IN IF ~check_regions(v)
       THEN Ended(Log(st2, Ev("check_regions", "", "", None, FALSE)), "return")
       ELSE IF possible # <<>> /\ sel[v] = <<>>
       THEN Ended(st3, "IndexError")
       ELSE IF loop.outcome # "return" THEN loop
       ELSE Ended(run_on_after_check_callbacks(loop.st, v), "return")

\* EntitySelector.match_entity(view); en tells which overriding
\* enable_for_selection answers truthy in this invocation.
match_entity(v, en) ==
    LET st == Frame
        selector == get_selector_for_view(st, v)
    IN IF PossibleSelectors = <<>> THEN Ended(st, "return")
       ELSE IF is_widget[v] THEN Ended(st, "return")
       ELSE IF selector = None THEN Resolve(st, v, en)
       ELSE IF sel[v] = <<>> THEN Ended(st, "IndexError")
       ELSE IF compare_current_selection(st, selector, v)
       THEN Ended(Log(st, Ev("compare", "", st.heap[selector].cls, selector, TRUE)),
                  "return")
       ELSE Resolve(Log(st, Ev("compare", "", st.heap[selector].cls, selector, FALSE)),
                    v, en)

\* ---------------------------------------------------------------- actions
\* The views the host has open, in the order of their ids
OpenViews ==
    [k \in 1..Cardinality(DOMAIN sel) |->
        CHOOSE v \in DOMAIN sel :
            Cardinality({w \in DOMAIN sel : w < v}) = k - 1]

\* The references to instances that outlive a handler, in a fixed order: the
\* selector and the highlighter of each view.
RefSeq(vs, hls) ==
    [k \in 1..(2 * Len(OpenViews)) |->
        LET v == OpenViews[(k + 1) \div 2]
        IN IF k % 2 = 1
           THEN (IF v \in DOMAIN vs THEN vs[v].selector ELSE None)
           ELSE (IF v \in DOMAIN hls THEN hls[v] ELSE None)]

Referenced(vs, hls) == {RefSeq(vs, hls)[k] : k \in 1..(2 * Len(OpenViews))} \ {None}

\* Object identity carries no information of its own: once a handler has
\* ended, the instances still referenced are numbered 1, 2, ... in the order
\* of RefSeq and the others are gone.
Renumber(vs, hls, id) ==
    LET refs == RefSeq(vs, hls)
        First(x) == CHOOSE k \in DOMAIN refs :
                        refs[k] = x /\ \A j \in DOMAIN refs : refs[j] = x => k <= j
    IN IF id = None THEN None
       ELSE Cardinality({First(x) : x \in {y \in Referenced(vs, hls) :
                                              First(y) <= First(id)}})

\* The history record of a handler invocation.  Instances are named here as
\* they were while the handler ran: those alive before it keep their number,
\* those it constructed (made) have numbers none of them had.
Record(op, v, res, result) ==
    [op |-> op, view |-> v, events |-> res.st.events, outcome |-> res.outcome,
     made |-> res.st.made,
     pre_selector |-> get_selector_for_view(Frame, v),
     selector_after |-> get_selector_for_view(res.st, v),
     result |-> result]

\* A handler's frame becomes the state.
Commit(res) ==
    LET vs == res.st.ViewSelectors
        hls == res.st.Highlighters
        live == Referenced(vs, hls)
    IN /\ ViewSelectors' =
              [v \in DOMAIN vs |->
                  [vs[v] EXCEPT !.selector = Renumber(vs, hls, @)]]
       /\ Highlighters' =
              [v \in DOMAIN hls |-> Renumber(vs, hls, hls[v])]
       /\ heap' = [n \in 1..Cardinality(live) |->
                     res.st.heap[CHOOSE id \in live : Renumber(vs, hls, id) = n]]
       /\ hl_regions' = res.st.hl_regions
       /\ doc_link' = res.st.doc_link
       /\ status' = res.st.status
       /\ hl_status' = res.st.hl_status

\* The classes in the registry
Registered == {PossibleSelectors[i] : i \in 1..Len(PossibleSelectors)}

\* EntitySelectListenerCommand.on_selection_modified_async / on_activated_async
MatchEntity(v) ==
    \E en \in [{c \in Registered : ~KeepsDefaultEnable(c)} -> BOOLEAN] :
        LET res == match_entity(v, en)
        IN /\ Commit(res)
           /\ last' = Record("match_entity", v, res, <<>>)
           /\ UNCHANGED <<sel, is_widget, PossibleSelectors,
                          OnBeforeCheckCallbacks, OnAfterCheckCallbacks,
                          found, PreemptiveHighlighters>>

\* A caller of EntitySelector.get_possible_selectors_for_view(view), such as
\* DocLinkCommand.is_visible.
GetPossibleSelectorsForView(v) ==
    LET st == get_possible_selectors_for_view(Frame, v)
    IN /\ Commit(Ended(st, "return"))
       /\ last' = Record("get_possible_selectors_for_view", v,
                         Ended(st, "return"), PossibleSelectorsOf(st, v))
       /\ UNCHANGED <<sel, is_widget, PossibleSelectors,
                      OnBeforeCheckCallbacks, OnAfterCheckCallbacks,
                      found, PreemptiveHighlighters>>

\* The history record after a step that is no handler of the engine.
Idle ==
    [op |-> "idle", view |-> 0, events |-> <<>>, outcome |-> "return",
     made |-> {}, pre_selector |-> None, selector_after |-> None,
     result |-> <<>>]

\* The user changes the selection of a view.
SelectionModified(v) ==
    \E s \in Selections :
        /\ s # sel[v]
        /\ sel' = [sel EXCEPT ![v] = s]
        /\ last' = Idle
        /\ UNCHANGED <<is_widget, doc_link, status, hl_status,
                       PossibleSelectors, OnBeforeCheckCallbacks,
                       OnAfterCheckCallbacks, ViewSelectors, Highlighters, heap,
                       highlight_vars>>

\* EntitySelector.add_possible_selector, called on class c
AddPossibleSelector(c) ==
    /\ Len(PossibleSelectors) < MaxRegistry
    /\ PossibleSelectors' = Append(PossibleSelectors, c)
    /\ last' = Idle
    /\ UNCHANGED <<sel, is_widget, doc_link, status, hl_status,
                   OnBeforeCheckCallbacks, OnAfterCheckCallbacks,
                   ViewSelectors, Highlighters, heap, highlight_vars>>

\* list.remove(x): without the first entry equal to x
RECURSIVE ListRemove(_, _)
ListRemove(s, x) ==
    IF s = <<>> THEN <<>>
    ELSE IF Head(s) = x THEN Tail(s)
    ELSE <<Head(s)>> \o ListRemove(Tail(s), x)

\* EntitySelector.remove_possible_selector, called on a registered class c
\* (on another one list.remove raises ValueError and nothing changes)
RemovePossibleSelector(c) ==
    /\ \E i \in 1..Len(PossibleSelectors) : PossibleSelectors[i] = c
    /\ PossibleSelectors' = ListRemove(PossibleSelectors, c)
    /\ last' = Idle
    /\ UNCHANGED <<sel, is_widget, doc_link, status, hl_status,
                   OnBeforeCheckCallbacks, OnAfterCheckCallbacks,
                   ViewSelectors, Highlighters, heap, highlight_vars>>

\* The callbacks registered when the package is imported, in the order of
\* src/__init__.py.  Every class inherits EntitySelector's two lists, so
\* hasattr finds them and every registration lands in these same lists.
ImportedBefore ==
    <<"DocLink.erase_regions", "StatusIdentifier.erase_status_string">>

ImportedAfter ==
    <<"DocLink.add_regions", "Highlight.display_status_string",
      "StatusIdentifier.display_status_string">>

UserRegistrations ==
    (Len(OnBeforeCheckCallbacks) - Len(ImportedBefore))
        + (Len(OnAfterCheckCallbacks) - Len(ImportedAfter))

\* EntitySelector.add_on_before_check_callback(callback)
AddOnBeforeCheckCallback(cb) ==
    /\ UserRegistrations < MaxCallbacks
    /\ OnBeforeCheckCallbacks' = Append(OnBeforeCheckCallbacks, cb)
    /\ last' = Idle
    /\ UNCHANGED <<sel, is_widget, doc_link, status, hl_status,
                   PossibleSelectors, OnAfterCheckCallbacks,
                   ViewSelectors, Highlighters, heap, highlight_vars>>

\* EntitySelector.add_on_after_check_callback(callback)
AddOnAfterCheckCallback(cb) ==
    /\ UserRegistrations < MaxCallbacks
    /\ OnAfterCheckCallbacks' = Append(OnAfterCheckCallbacks, cb)
    /\ last' = Idle
    /\ UNCHANGED <<sel, is_widget, doc_link, status, hl_status,
                   PossibleSelectors, OnBeforeCheckCallbacks,
                   ViewSelectors, Highlighters, heap, highlight_vars>>

Init ==
    /\ sel \in [Views -> {<<<<0, 0>>>>}]
    /\ is_widget \in [Views -> BOOLEAN]
    /\ doc_link = [v \in Views |-> <<>>]
    /\ status = [v \in Views |-> NoStatus]
    /\ hl_status = [v \in Views |-> <<>>]
    /\ PossibleSelectors = <<>>
    /\ OnBeforeCheckCallbacks = ImportedBefore
    /\ OnAfterCheckCallbacks = ImportedAfter
    /\ ViewSelectors = EmptyDict
    /\ Highlighters = EmptyDict
    /\ heap = EmptyDict
    /\ hl_regions = [v \in Views |-> <<>>]
    /\ found = BufferAtStart
    /\ PreemptiveHighlighters = {}
    /\ last = Idle

Next ==
    \/ \E v \in Views : MatchEntity(v)
    \/ \E v \in Views : GetPossibleSelectorsForView(v)
    \/ \E v \in Views : SelectionModified(v)
    \/ \E c \in Classes : AddPossibleSelector(c)
    \/ \E c \in Classes : RemovePossibleSelector(c)
    \/ \E cb \in UserCallbacks : AddOnBeforeCheckCallback(cb)
    \/ \E cb \in UserCallbacks : AddOnAfterCheckCallback(cb)

Spec == Init /\ [][Next]_vars

\* ------------------------------------------------- reading the history
IsMatch == last.op = "match_entity"

\* The positions of the events of one kind in the last invocation
At(kind) == {i \in 1..Len(last.events) : last.events[i].kind = kind}

\* The names the events of one kind carry, in the order they happened
NamesIn(events, kind) ==
    LET Is(e) == e.kind = kind
        es == SelectSeq(events, Is)
    IN [i \in 1..Len(es) |-> es[i].name]

NamesOf(kind) == NamesIn(last.events, kind)

\* The score of class c at the first selection of view v
FirstSelectionScore(c, v) ==
    score_selector(sel[v][1][1], scope_selection_enabler(c))

\* The classes of the view's possible-selector list that score > 0
Candidates(v) ==
    {c \in Classes :
        /\ \E i \in 1..Len(ViewSelectors[v].possible_selectors) :
               ViewSelectors[v].possible_selectors[i] = c
        /\ FirstSelectionScore(c, v) > 0}

\* enable_for_selection of c was called in the last invocation and answered
\* falsy / truthy
Refused(c) ==
    \E i \in At("enable") : last.events[i].name = c /\ ~last.events[i].truthy

Accepted(c) ==
    \E i \in At("enable") : last.events[i].name = c /\ last.events[i].truthy

\* C1: when match_entity reaches the resolution step, the class it activates
\* is a possible class of the view that scores > 0 at the first selection and
\* answered truthy; every possible class scoring strictly higher was asked
\* and answered falsy; nothing is asked after the first truthy answer; the
\* active selector, if any, is an instance of the activated class; and when
\* no class is activated every candidate was asked and answered falsy.
C1_HighestEnabledActivated ==
    (IsMatch /\ At("resolve") # {}) =>
        LET v == last.view
            ev == last.events
        IN /\ Cardinality(At("activate")) <= 1
           /\ \A i \in At("activate") :
                  /\ ev[i].name \in Candidates(v)
                  /\ Accepted(ev[i].name)
                  /\ \A d \in Candidates(v) :
                         FirstSelectionScore(d, v) > FirstSelectionScore(ev[i].name, v)
                             => Refused(d)
                  /\ \A j \in At("enable") :
                         /\ j < i
                         /\ ev[j].truthy => (ev[j].name = ev[i].name /\ j = i - 1)
                  /\ ViewSelectors[v].selector # None =>
                         heap[ViewSelectors[v].selector].cls = ev[i].name
           /\ At("activate") = {} =>
                  /\ \A d \in Candidates(v) : Refused(d)
                  /\ ViewSelectors[v].selector = None

\* C1 witness: a class was activated after a higher-scoring possible class
\* had been asked and had refused.
C1_Witness ==
    /\ IsMatch
    /\ \E i \in At("activate") :
           /\ \E d \in Candidates(last.view) :
                  /\ FirstSelectionScore(d, last.view)
                         > FirstSelectionScore(last.events[i].name, last.view)
                  /\ Refused(d)
           /\ ViewSelectors[last.view].selector # None

\* The regions the active selector of view v holds
ActiveRegions(v) ==
    LET s == heap[ViewSelectors[v].selector]
    IN IF s.alias THEN sel[v] ELSE s.regions

\* View v has an active selector and a first selection
HasActiveSelector(v) ==
    /\ v \in DOMAIN ViewSelectors
    /\ ViewSelectors[v].selector # None
    /\ sel[v] # <<>>

\* The active selector of v matches the current selection: its class scores
\* > 0 at the first selection, which lies in one of the selector's regions
StillMatches(v) ==
    /\ HasActiveSelector(v)
    /\ FirstSelectionScore(heap[ViewSelectors[v].selector].cls, v) > 0
    /\ \E i \in 1..Len(ActiveRegions(v)) :
           ActiveRegions(v)[i][1] <= sel[v][1][1]
               /\ sel[v][1][2] <= ActiveRegions(v)[i][2]

\* The step is an invocation of match_entity on view v
MatchStep(v) == last'.op = "match_entity" /\ last'.view = v

\* C2: match_entity on a non-widget view, with a non-empty registry, whose
\* active selector no longer matches the first selection, sets the view's
\* selector to none before anything of the resolution happens, and ends with
\* the view's selector none or an instance constructed in this invocation,
\* never the previous instance.
C2_StaleSelectorDiscarded ==
    [][\A v \in Views :
          (/\ MatchStep(v)
           /\ PossibleSelectors # <<>>
           /\ ~is_widget[v]
           /\ HasActiveSelector(v)
           /\ ~StillMatches(v))
          => /\ last'.pre_selector # None
             /\ last'.pre_selector \notin last'.made
             /\ last'.selector_after \in {None} \cup last'.made
             /\ (ViewSelectors'[v].selector = None) = (last'.selector_after = None)
             /\ \E r \in 1..Len(last'.events) :
                    /\ last'.events[r].kind = "reset"
                    /\ \A i \in 1..Len(last'.events) :
                           last'.events[i].kind \in
                               {"before", "resolve", "enable", "construct",
                                "activate", "after", "update_possible_selectors"}
                               => r < i]_vars

\* C2 witness: an invocation found the previous selector stale and ended with
\* a newly constructed one.
C2_Witness ==
    /\ IsMatch
    /\ last.pre_selector # None
    /\ \E i \in At("compare") : ~last.events[i].truthy
    /\ last.selector_after \in last.made

\* C3: match_entity on a view whose active selector still matches the first
\* selection ends with the same instance active, constructs nothing, runs no
\* before-check or after-check callback and leaves the records of the views
\* as they were, whatever the other selections are.
C3_MatchingSelectorRetained ==
    [][\A v \in Views :
          (MatchStep(v) /\ StillMatches(v))
          => /\ last'.selector_after = last'.pre_selector
             /\ last'.pre_selector # None
             /\ last'.made = {}
             /\ last'.outcome = "return"
             /\ \A i \in 1..Len(last'.events) :
                    last'.events[i].kind \notin {"before", "after", "reset"}
             /\ ViewSelectors' = ViewSelectors
             /\ heap' = heap]_vars

\* C3 witness: a selector was retained although the view has a second
\* selection that lies in none of the selector's regions.
C3_Witness ==
    /\ IsMatch
    /\ \E i \in At("compare") : last.events[i].truthy
    /\ Len(sel[last.view]) = 2
    /\ StillMatches(last.view)
    /\ \A i \in 1..Len(ActiveRegions(last.view)) :
           ~contains(ActiveRegions(last.view)[i], sel[last.view][2])

\* C4: in an invocation of match_entity that runs the resolution step, every
\* on-before-check callback has been called before the first
\* enable_for_selection, every after-check callback is called after the last
\* step of the loop, and no after-check callback precedes a before-check one.
C4_CallbacksAroundResolution ==
    (IsMatch /\ At("resolve") # {}) =>
        /\ NamesOf("before") = OnBeforeCheckCallbacks
        /\ \A b \in At("before") : \A r \in At("resolve") : b < r
        /\ \A r \in At("resolve") :
               \A e \in At("enable") \cup At("construct") \cup At("activate") : r < e
        /\ \A a \in At("after") :
               \A e \in At("before") \cup At("resolve") \cup At("enable")
                           \cup At("construct") \cup At("activate") : e < a

\* C4 witness: an invocation ran before-check callbacks, asked a class and
\* ran after-check callbacks.
C4_Witness ==
    /\ IsMatch
    /\ At("before") # {}
    /\ At("enable") # {}
    /\ At("after") # {}

\* C5: every invocation of match_entity that runs the on-before-check
\* callbacks and returns has run the on-after-check callbacks.
C5_BeforeImpliesAfter ==
    (IsMatch /\ At("before") # {} /\ last.outcome = "return") =>
        NamesOf("after") = OnAfterCheckCallbacks

\* The selector of the view at the time of event i of the last invocation:
\* the one the latest reset or construction before i left, or the one the
\* invocation found
CurrentAt(i) ==
    LET prior == {j \in At("reset") \cup At("construct") : j < i}
    IN IF prior = {} THEN last.pre_selector
       ELSE last.events[CHOOSE j \in prior : \A k \in prior : k <= j].selector

\* The class of an instance constructed in the last invocation
ClassMade(id) ==
    last.events[CHOOSE j \in At("construct") : last.events[j].selector = id].name

\* C6: every callback of the before-check and after-check chains is called
\* with the selector the view has at that time and with that selector's
\* class, or with None and the base class EntitySelector when the view has
\* no selector.
C6_CallbackArguments ==
    IsMatch =>
        \A i \in At("before") \cup At("after") :
            /\ last.events[i].selector = CurrentAt(i)
            /\ last.events[i].cls =
                   IF CurrentAt(i) = None THEN "EntitySelector"
                   ELSE ClassMade(CurrentAt(i))

\* C6 witness: an after-check callback was called with a selector.
C6_Witness ==
    /\ IsMatch
    /\ \E i \in At("after") : last.events[i].selector # None
    /\ \E i \in At("before") : last.events[i].selector = None

\* C7: the chains grow at their end only, so their order is the order of
\* registration (the callbacks registered at import first), and every run of
\* a chain by match_entity calls the callbacks in that order.
C7_RegistrationOrder ==
    [][/\ \/ OnBeforeCheckCallbacks' = OnBeforeCheckCallbacks
          \/ \E cb \in UserCallbacks :
                 OnBeforeCheckCallbacks' = Append(OnBeforeCheckCallbacks, cb)
       /\ \/ OnAfterCheckCallbacks' = OnAfterCheckCallbacks
          \/ \E cb \in UserCallbacks :
                 OnAfterCheckCallbacks' = Append(OnAfterCheckCallbacks, cb)
       /\ last'.op = "match_entity" =>
              /\ NamesIn(last'.events, "before") \in {<<>>, OnBeforeCheckCallbacks}
              /\ NamesIn(last'.events, "after") \in {<<>>, OnAfterCheckCallbacks}]_vars

\* C7 witness: a chain with a callback registered at run time was run.
C7_Witness ==
    /\ IsMatch
    /\ Len(NamesOf("before")) > Len(ImportedBefore)
    /\ NamesOf("after") # <<>>

\* The primary scope of view v: the first scope token at the first selection,
\* or at position 0 when there is no selection
PrimaryScope(v) ==
    IF Len(sel[v]) = 0 THEN scope_name(0)[1] ELSE scope_name(sel[v][1][1])[1]

\* The fingerprint of the current registry
Fingerprint == [i \in 1..Len(PossibleSelectors) |-> ClassRepr(PossibleSelectors[i])]

\* The registered classes whose view scope scores > 0 at some selection (at
\* position 0 when there is none), in registry order
ExpectedPossible(v) ==
    LET at == IF Len(sel[v]) = 0 THEN {0}
              ELSE {sel[v][i][1] : i \in 1..Len(sel[v])}
        Ok(c) == \E pt \in at : score_selector(pt, scope_view_enabler(c)) > 0
    IN SelectSeq(PossibleSelectors, Ok)

\* The step is a call of get_possible_selectors_for_view on a view that has
\* a record
GetPossibleStep(v) ==
    /\ last'.op = "get_possible_selectors_for_view"
    /\ last'.view = v
    /\ v \in DOMAIN ViewSelectors

\* The stored primary scope or the stored fingerprint of v is out of date
StoredIsStale(v) ==
    \/ ViewSelectors[v].scope # PrimaryScope(v)
    \/ ViewSelectors[v].possible_selectors_hash # Fingerprint

\* C8 as stated: the list get_possible_selectors_for_view returns for a view
\* that has a record is the list freshly computed from the registry.
C8_CacheEqualsFresh ==
    (last.op = "get_possible_selectors_for_view"
        /\ last.view \in DOMAIN ViewSelectors)
        => last.result = ExpectedPossible(last.view)

\* C8 as amended: the list returned is the freshly computed one when the call
\* finds the stored primary scope or the stored fingerprint out of date, and
\* the cached list, as it was, otherwise.
C8_FreshWhenStale ==
    [][\A v \in Views :
          GetPossibleStep(v) =>
              /\ StoredIsStale(v) => last'.result = ExpectedPossible(v)
              /\ ~StoredIsStale(v) =>
                     last'.result = ViewSelectors[v].possible_selectors
              /\ last'.result = ViewSelectors'[v].possible_selectors]_vars

\* C8 witness: a call recomputed the list and returned a non-empty one that
\* leaves a registered class out.
C8_Witness ==
    /\ last.op = "get_possible_selectors_for_view"
    /\ At("update_possible_selectors") # {}
    /\ last.result # <<>>
    /\ Len(last.result) < Len(PossibleSelectors)

\* C9: a call of get_possible_selectors_for_view (from outside or from the
\* resolution step of match_entity) that finds the stored primary scope or
\* fingerprint out of date recomputes the list; after the call the stored
\* scope and fingerprint are the current ones.
C9_RecomputedWhenStale ==
    [][\A v \in Views :
          (/\ v \in DOMAIN ViewSelectors
           /\ \/ GetPossibleStep(v)
              \/ /\ MatchStep(v)
                 /\ \E i \in 1..Len(last'.events) : last'.events[i].kind = "resolve")
          => /\ StoredIsStale(v) =>
                    /\ \E i \in 1..Len(last'.events) :
                           last'.events[i].kind = "update_possible_selectors"
                    /\ ViewSelectors'[v].possible_selectors = ExpectedPossible(v)
             /\ ViewSelectors'[v].scope = PrimaryScope(v)
             /\ ViewSelectors'[v].possible_selectors_hash = Fingerprint]_vars

\* C9 witness: a direct call recomputed the list of a view whose stored scope
\* and fingerprint are now the current ones.
C9_Witness ==
    /\ last.op = "get_possible_selectors_for_view"
    /\ At("update_possible_selectors") # {}
    /\ ViewSelectors[last.view].scope = PrimaryScope(last.view)
    /\ ViewSelectors[last.view].possible_selectors_hash = Fingerprint
    /\ Len(PossibleSelectors) = MaxRegistry

\* C10: when match_entity selects a class that keeps the default
\* enable_for_selection, it returns without raising, the instance constructed
\* is the view's active selector and the on-after-check callbacks have run.
C10_DefaultEnableCompletes ==
    IsMatch =>
        \A i \in At("activate") :
            KeepsDefaultEnable(last.events[i].name) =>
                /\ last.outcome = "return"
                /\ last.selector_after \in last.made
                /\ ClassMade(last.selector_after) = last.events[i].name
                /\ NamesOf("after") = OnAfterCheckCallbacks

\* ------------------------------------------------- the class methods alone
\* The registries add_possible_selector can have built.
Registries == UNION {[1..n -> Classes] : n \in 0..MaxRegistry}

\* A caller of EntitySelector.sorted_selectors_for_selection(view): the list
\* is asked of the view's record (and recomputed there when it is stale);
\* view.sel()[0] raises IndexError when a class is possible and nothing is
\* selected.
SortedSelectorsForSelection(v) ==
    LET st == get_possible_selectors_for_view(Frame, v)
        possible == PossibleSelectorsOf(st, v)
        res == IF possible # <<>> /\ sel[v] = <<>>
               THEN Ended(st, "IndexError")
               ELSE Ended(st, "return")
        result == IF res.outcome = "return"
                  THEN sorted_selectors_for_selection(possible, v)
                  ELSE <<>>
    IN /\ Commit(res)
       /\ last' = Record("sorted_selectors_for_selection", v, res, result)
       /\ UNCHANGED <<sel, is_widget, PossibleSelectors,
                      OnBeforeCheckCallbacks, OnAfterCheckCallbacks,
                      found, PreemptiveHighlighters>>

\* A caller of EntitySelector.check_regions(view)
CheckRegions(v) ==
    LET res == Ended(Log(Frame, Ev("check_regions", "", "", None,
                                   check_regions(v))),
                     "return")
    IN /\ Commit(res)
       /\ last' = Record("check_regions", v, res, <<>>)
       /\ UNCHANGED <<sel, is_widget, PossibleSelectors,
                      OnBeforeCheckCallbacks, OnAfterCheckCallbacks,
                      found, PreemptiveHighlighters>>

\* The class methods called on a view that has a record, with any registry
\* and any selection.
MethodInit ==
    /\ sel \in [Views -> Selections]
    /\ is_widget = [v \in Views |-> FALSE]
    /\ doc_link = [v \in Views |-> <<>>]
    /\ status = [v \in Views |-> NoStatus]
    /\ hl_status = [v \in Views |-> <<>>]
    /\ PossibleSelectors \in Registries
    /\ OnBeforeCheckCallbacks = ImportedBefore
    /\ OnAfterCheckCallbacks = ImportedAfter
    /\ ViewSelectors = [v \in Views |-> NewViewData(v, None)]
    /\ Highlighters = EmptyDict
    /\ heap = EmptyDict
    /\ hl_regions = [v \in Views |-> <<>>]
    /\ found = BufferAtStart
    /\ PreemptiveHighlighters = {}
    /\ last = Idle

MethodNext ==
    \/ \E v \in Views : SortedSelectorsForSelection(v)
    \/ \E v \in Views : CheckRegions(v)
    \/ \E v \in Views : SelectionModified(v)

MethodSpec == MethodInit /\ [][MethodNext]_vars

\* How often class c occurs in the list s
Occurrences(s, c) == Cardinality({i \in 1..Len(s) : s[i] = c})

\* C11: sorted_selectors_for_selection(view), on a view with a first
\* selection, returns the classes of the view's possible-selector list that
\* score > 0 at the first selection, each as often as it occurs in that list,
\* in an order of non-increasing score.
C11_SortedSelectors ==
    (/\ last.op = "sorted_selectors_for_selection"
     /\ last.outcome = "return"
     /\ sel[last.view] # <<>>)
    => LET v == last.view
           possible == ViewSelectors[v].possible_selectors
       IN /\ \A c \in Classes :
                 Occurrences(last.result, c) =
                     IF FirstSelectionScore(c, v) > 0
                     THEN Occurrences(possible, c) ELSE 0
          /\ \A i \in 1..Len(last.result) : \A j \in 1..Len(last.result) :
                 i < j => FirstSelectionScore(last.result[i], v)
                              >= FirstSelectionScore(last.result[j], v)

\* C11 witness: a call returned two classes of different score in the order
\* opposite to the one of the possible-selector list.
C11_Witness ==
    /\ last.op = "sorted_selectors_for_selection"
    /\ Len(last.result) = 2
    /\ FirstSelectionScore(last.result[1], last.view)
           > FirstSelectionScore(last.result[2], last.view)
    /\ ViewSelectors[last.view].possible_selectors
           = <<last.result[2], last.result[1]>>

\* What the last call of check_regions returned
CheckRegionsResult == last.events[1].truthy

\* The scope name at a text point, without the blanks around it
ScopeAt(pt) == strip(scope_name(pt))

\* The innermost scope at a text point
InnermostScopeAt(pt) == ScopeAt(pt)[Len(ScopeAt(pt))]

C20_RegionsFixedAtActivation ==
    [][\A v \in Views :
          (/\ v \in DOMAIN ViewSelectors
           /\ ViewSelectors[v].selector # None
           /\ last'.op = "idle"
           /\ ViewSelectors' = ViewSelectors
           /\ heap' = heap)
          => ActiveRegions(v)' = ActiveRegions(v)]_vars

\* ------------------------------------------------------------ Highlight
\* What a command hands back: the frame it leaves, how it ended and the
\* selection of the view afterwards.
Done(st, outcome, selection) ==
    [st |-> st, outcome |-> outcome, sel |-> selection]

\* isinstance(selector, Highlight) for an instance of class c: only such an
\* instance has enable_highlight and highlight.
IsHighlight(c) == Base(c) = "Highlight"

\* Region.__lt__: by begin, then by end
RegionLt(r, s) ==
    begin(r) < begin(s) \/ (begin(r) = begin(s) /\ end(r) < end(s))

\* list.sort() on regions
RECURSIVE InsertRegion(_, _)
InsertRegion(x, s) ==
    IF s = <<>> THEN <<x>>
    ELSE IF RegionLt(x, Head(s)) THEN <<x>> \o s
    ELSE <<Head(s)>> \o InsertRegion(x, Tail(s))

RECURSIVE SortRegions(_)
SortRegions(s) ==
    IF s = <<>> THEN <<>>
    ELSE InsertRegion(s[Len(s)], SortRegions(SubSeq(s, 1, Len(s) - 1)))

\* Highlight.display_status_string(view = v, highlighter = highlighter) while
\* the view's selection is `selection`: the status entry becomes
\* <<current, total>> (current 0 for None); view.sel()[0] raises IndexError
\* when nothing is selected.
display_status_string(st, v, highlighter, selection) ==
    LET hr == get_highlight_regions(highlighter)
        hits == {i \in 1..Len(hr) : intersects(hr[i], selection[1])}
        current == IF hits = {} THEN 0
                   ELSE CHOOSE i \in hits : \A j \in hits : i <= j
    IN IF highlighter = None
       THEN Ended([st EXCEPT !.hl_status[v] = <<>>], "return")
       ELSE IF selection = <<>> THEN Ended(st, "IndexError")
       ELSE Ended([st EXCEPT !.hl_status[v] = <<current, Len(hr)>>], "return")

\* Highlight.erase_highlight_regions
erase_highlight_regions(st, v) ==
    [st EXCEPT !.hl_regions[v] = <<>>, !.hl_status[v] = <<>>]

\* Highlight.remove_highlighter_from_view
remove_highlighter_from_view(st, id) ==
    LET v == st.heap[id].view
    IN erase_highlight_regions(
           [st EXCEPT !.Highlighters = DictSet(@, v, None)], v)

\* Highlight.assign_highlighter_to_view
assign_highlighter_to_view(st, id) ==
    [st EXCEPT !.Highlighters = DictSet(@, st.heap[id].view, id)]

\* An add_highlight_regions that draws nothing
add_highlight_regions_NoDraw(st, id, selection) ==
    display_status_string(st, st.heap[id].view, id, selection)

\* Highlight.add_highlight_regions
add_highlight_regions(st, id, selection) ==
    LET v == st.heap[id].view
    IN display_status_string(
           [st EXCEPT !.hl_regions[v] = st.heap[id].highlight_regions],
           v, id, selection)

\* A highlight() that extends the list without clearing it
highlight_KeepOld(st, id, selection) ==
    LET hr == get_highlight_regions(id)
    IN IF hr # <<>>
       THEN add_highlight_regions(
                assign_highlighter_to_view(
                    [st EXCEPT !.heap[id].highlight_regions = @ \o hr], id),
                id, selection)
       ELSE Ended(remove_highlighter_from_view(st, id), "return")

\* Highlight.highlight, while the view's selection is `selection`
highlight(st, id, selection) ==
    LET hr == get_highlight_regions(id)
    IN IF hr # <<>>
       THEN add_highlight_regions(
                assign_highlighter_to_view(
                    [st EXCEPT !.heap[id].highlight_regions = hr], id),
                id, selection)
       ELSE Ended(remove_highlighter_from_view(st, id), "return")

\* A scan that tests for the next region first
RECURSIVE ScanRegions_NextFirst(_, _, _, _, _)
ScanRegions_NextFirst(rs, next, prev, b, e) ==
    IF rs = <<>> THEN [next |-> next, prev |-> prev]
    ELSE IF begin(Head(rs)) >= e THEN [next |-> Head(rs), prev |-> prev]
    ELSE IF end(Head(rs)) <= b
    THEN ScanRegions_NextFirst(Tail(rs), next, Head(rs), b, e)
    ELSE ScanRegions_NextFirst(Tail(rs), next, prev, b, e)

\* The loop of move_to_highlight (lines 180-185) over the sorted regions
RECURSIVE ScanRegions(_, _, _, _, _)
ScanRegions(rs, next, prev, b, e) ==
    IF rs = <<>> THEN [next |-> next, prev |-> prev]
    ELSE IF end(Head(rs)) <= b
    THEN ScanRegions(Tail(rs), next, Head(rs), b, e)
    ELSE IF begin(Head(rs)) >= e THEN [next |-> Head(rs), prev |-> prev]
    ELSE ScanRegions(Tail(rs), next, prev, b, e)

\* Highlight.move_to_highlight: selection[0] raises IndexError when nothing
\* is selected; regions.sort() sorts self.highlight_regions in place;
\* regions[0] raises IndexError when there is no region.
move_to_highlight(st, id, forward, selection) ==
    LET regions == SortRegions(st.heap[id].highlight_regions)
        st1 == [st EXCEPT !.heap[id].highlight_regions = regions]
        scan == ScanRegions(regions, regions[1], regions[Len(regions)],
                            begin(selection[1]), end(selection[1]))
    IN IF selection = <<>> THEN Done(st, "IndexError", selection)
       ELSE IF regions = <<>> THEN Done(st1, "IndexError", selection)
       ELSE Done(st1, "return", <<IF forward THEN scan.next ELSE scan.prev>>)

\* Highlight.select_all_highlights: the selection becomes the regions (the
\* host keeps a selection sorted); sel[0] raises IndexError when there is
\* none.
select_all_highlights(st, id) ==
    LET regions == st.heap[id].highlight_regions
    IN IF regions = <<>> THEN Done(st, "IndexError", <<>>)
       ELSE Done(st, "return", SortRegions(regions))

\* EntityselectHighlightCommand.show_all with the answer of the quick panel
\* (show_error): index 0 stands for -1 (cancelled, the selection is put
\* back), index i for the i-th item.
show_all(st, id, selection, index) ==
    LET items == st.heap[id].highlight_regions
    IN IF index = 0 \/ index > Len(items) THEN Done(st, "return", selection)
       ELSE Done(st, "return", <<items[index]>>)

\* ------------------------------------------------------------- commands
\* Highlight.HIGHLIGHT_COMMAND and the other sub-commands
HighlightCommands ==
    {"highlight", "forward", "backward", "clear", "select_all", "show_all"}

SubCommands == HighlightCommands \ {"highlight"}

\* Highlight.enable_highlight (no class of the model overrides it)
enable_highlight(c) == TRUE

\* EntityselectHighlightCommand.run(edit, cmd).  s.enable_highlight() raises
\* AttributeError, which run swallows, when s is None or no Highlight.
HighlightCommand_run(v, cmd, index) ==
    LET st == Frame
        s == get_selector_for_view(st, v)
        hl == get_highlighter_for_view(v)
        r == highlight(st, s, sel[v])
    IN IF cmd = "highlight"
       THEN IF s = None \/ ~IsHighlight(st.heap[s].cls)
            THEN Done(st, "return", sel[v])
            ELSE IF ~enable_highlight(st.heap[s].cls)
            THEN Done(st, "return", sel[v])
            ELSE Done(r.st, r.outcome, sel[v])
       ELSE IF hl = None THEN Done(st, "return", sel[v])
       ELSE CASE cmd = "forward" -> move_to_highlight(st, hl, TRUE, sel[v])
              [] cmd = "backward" -> move_to_highlight(st, hl, FALSE, sel[v])
              [] cmd = "clear" ->
                    Done(remove_highlighter_from_view(st, hl), "return", sel[v])
              [] cmd = "select_all" -> select_all_highlights(st, hl)
              [] cmd = "show_all" -> show_all(st, hl, sel[v], index)

\* A visibility test that asks whether the view has an entry at all
HighlightCommand_is_visible_AnyEntry(v, cmd) == v \in DOMAIN Highlighters

\* EntityselectHighlightCommand.is_visible(cmd), cmd not 'highlight'
HighlightCommand_is_visible(v, cmd) == get_highlighter_for_view(v) # None

\* EntityselectHighlightCommand.is_enabled(cmd), cmd not 'highlight'
HighlightCommand_is_enabled(v, cmd) == get_highlighter_for_view(v) # None

\* DocLink.enable_doc_link (no class of the model overrides it)
enable_doc_link(c) == TRUE

\* view.substr(region): the text of the buffer in a region
substr(r) ==
    IF empty(r) THEN "" ELSE IF begin(r) = 0 THEN "e0" ELSE "e2"

\* An enabling test that accepts any selector
DocLinkCommand_is_enabled_AnySelector(v) == get_selector_for_view(Frame, v) # None

\* DocLinkCommand.is_enabled: enable_doc_link raises AttributeError, which is
\* answered by False, when the selector is None or no DocLink.
DocLinkCommand_is_enabled(v) ==
    LET s == get_selector_for_view(Frame, v)
    IN /\ s # None
       /\ IsInstance(heap[s].cls, "DocLink")
       /\ enable_doc_link(heap[s].cls)

\* DocLinkCommand.description, with DocLink.doclink_description
DocLinkCommand_description(v) ==
    LET s == get_selector_for_view(Frame, v)
        search_string == substr(heap[s].regions[1])
    IN IF DocLinkCommand_is_enabled(v) /\ search_string # ""
       THEN "DocLink: " \o search_string
       ELSE "DocLink"

\* DocLinkCommand.run: s.show_doc() of the subclass is called for a DocLink
\* with enable_doc_link(); AttributeError is swallowed.
DocLinkCommand_run(v) ==
    LET s == get_selector_for_view(Frame, v)
    IN IF DocLinkCommand_is_enabled(v)
       THEN Ended(Log(Frame, Ev("show_doc", heap[s].cls, heap[s].cls, s, TRUE)),
                  "return")
       ELSE Ended(Frame, "return")

\* HighlightListenerCommand.update_highlights(view), called by
\* on_activated_async and on_modified_async: the assigned highlighter searches
\* again and is removed when it holds no region; without one the drawn
\* regions are erased.
update_highlights(v) ==
    LET st == Frame
        hl == get_highlighter_for_view(v)
        r == highlight(st, hl, sel[v])
    IN IF is_widget[v] THEN Ended(st, "return")
       ELSE IF hl = None
       THEN Ended([st EXCEPT !.hl_regions[v] = <<>>], "return")
       ELSE IF r.outcome # "return" THEN r
       ELSE IF r.st.heap[hl].highlight_regions = <<>>
       THEN Ended(remove_highlighter_from_view(r.st, hl), "return")
       ELSE r

\* The names a preemptive-highlight command can carry
Idents == PreemptiveClasses \cup {"Unknown"}

\* What get_preemptive_highlight_selection of a class can answer
PreemptiveSelections == {<<>>, <<<<0, 1>>>>}

\* A command that leaves the preemptive selection in place
RestoreSelection_Keep(current_selection, ps) == ps

\* PreemptiveHighlightCommand.run: "Restore the current selection"
RestoreSelection(current_selection, ps) == current_selection

\* A command that leaves the selector as the constructor set it
RestoreSelector_Skip(st, v, current_selector) == st

\* PreemptiveHighlightCommand.run: "Restore the current selector"
RestoreSelector(st, v, current_selector) ==
    update_selector_for_view(st, v, current_selector)

\* PreemptiveHighlightCommand.run(edit, highlighter): ident is the name, ps
\* the answer of get_preemptive_highlight_selection, en whether
\* enable_for_selection answers keyword arguments (the entity at the
\* preemptive selection) or something falsy.  The dictionary lookup of
\* get_preemptive_highlighter raises KeyError for a name that is not
\* registered.
PreemptiveHighlightCommand_run(v, ident, ps, en) ==
    LET st == Frame
        current_selection == sel[v]
        current_selector == get_selector_for_view(st, v)
        st1 == Construct(Log(st, Ev("enable", ident, ident, None, TRUE)),
                         v, ident, <<EntityAt(begin(ps[1]))>>)
        preemptive_highlighter == get_selector_for_view(st1, v)
        r == highlight(st1, preemptive_highlighter, ps)
        st2 == IF r.st.heap[preemptive_highlighter].highlight_regions = <<>>
               THEN remove_highlighter_from_view(r.st, preemptive_highlighter)
               ELSE r.st
    IN IF ident \notin PreemptiveHighlighters
       THEN Done(st, "KeyError", current_selection)
       ELSE IF ps = <<>> THEN Done(st, "return", current_selection)
       ELSE IF ~en
       THEN Done(Log(st, Ev("enable", ident, ident, None, FALSE)), "return",
                 RestoreSelection(current_selection, ps))
       ELSE IF r.outcome # "return" THEN Done(r.st, r.outcome, ps)
       ELSE Done(RestoreSelector(st2, v, current_selector), "return",
                 RestoreSelection(current_selection, ps))

\* PreemptiveHighlightCommand.is_visible / is_enabled
PreemptiveHighlightCommand_is_visible(ident) ==
    IF ident \notin PreemptiveHighlighters
    THEN [outcome |-> "KeyError", value |-> FALSE]
    ELSE [outcome |-> "return", value |-> TRUE]

\* What a command leaves alone in every case
CommandFrame ==
    UNCHANGED <<is_widget, PossibleSelectors, OnBeforeCheckCallbacks,
                OnAfterCheckCallbacks, found, PreemptiveHighlighters>>

\* A query changes nothing but the history
QueryFrame ==
    UNCHANGED <<sel, is_widget, doc_link, status, hl_status, PossibleSelectors,
                OnBeforeCheckCallbacks, OnAfterCheckCallbacks, ViewSelectors,
                Highlighters, heap, highlight_vars>>

\* The user runs entityselect_highlight with cmd (and, for show_all, answers
\* the quick panel with index); the history keeps cmd and the selection the
\* command started with.
HighlightCommandRun(v, cmd) ==
    \E index \in (IF cmd = "show_all" THEN 0..MaxSel ELSE {0}) :
        LET res == HighlightCommand_run(v, cmd, index)
        IN /\ Commit(res)
           /\ sel' = [sel EXCEPT ![v] = res.sel]
           /\ last' = Record("EntityselectHighlightCommand.run", v, res,
                             [cmd |-> cmd, sel |-> sel[v]])
           /\ CommandFrame

\* The host asks is_visible and is_enabled of a sub-command.
HighlightCommandQuery(v, cmd) ==
    /\ last' = Record("EntityselectHighlightCommand.is_visible", v,
                      Ended(Frame, "return"),
                      [cmd |-> cmd,
                       is_visible |-> HighlightCommand_is_visible(v, cmd),
                       is_enabled |-> HighlightCommand_is_enabled(v, cmd)])
    /\ QueryFrame

\* The user runs doc_link.
DocLinkCommandRun(v) ==
    LET res == DocLinkCommand_run(v)
    IN /\ Commit(res)
       /\ last' = Record("DocLinkCommand.run", v, res, <<>>)
       /\ UNCHANGED sel
       /\ CommandFrame

\* The host asks is_enabled and description of doc_link.
DocLinkCommandQuery(v) ==
    /\ last' = Record("DocLinkCommand.is_enabled", v, Ended(Frame, "return"),
                      [is_enabled |-> DocLinkCommand_is_enabled(v),
                       description |-> DocLinkCommand_description(v)])
    /\ QueryFrame

\* The user runs preemptive_highlight with the name ident.
PreemptiveHighlightCommandRun(v, ident) ==
    \E ps \in PreemptiveSelections : \E en \in BOOLEAN :
        LET res == PreemptiveHighlightCommand_run(v, ident, ps, en)
        IN /\ Commit(res)
           /\ sel' = [sel EXCEPT ![v] = res.sel]
           /\ last' = Record("PreemptiveHighlightCommand.run", v, res,
                             [ident |-> ident, ps |-> ps])
           /\ CommandFrame

\* The host asks is_visible / is_enabled of preemptive_highlight.
PreemptiveHighlightCommandQuery(v, ident) ==
    LET q == PreemptiveHighlightCommand_is_visible(ident)
    IN /\ last' = Record("PreemptiveHighlightCommand.is_visible", v,
                         Ended(Frame, q.outcome),
                         [ident |-> ident, is_visible |-> q.value])
       /\ QueryFrame

\* PreemptiveHighlight.add_possible_selector, called once on class c
AddPreemptiveSelector(c) ==
    /\ Len(PossibleSelectors) < MaxRegistry
    /\ c \notin Registered
    /\ PossibleSelectors' = Append(PossibleSelectors, c)
    /\ PreemptiveHighlighters' = PreemptiveHighlighters \cup {c}
    /\ last' = Idle
    /\ UNCHANGED <<sel, is_widget, doc_link, status, hl_status,
                   OnBeforeCheckCallbacks, OnAfterCheckCallbacks,
                   ViewSelectors, Highlighters, heap, hl_regions, found>>

\* The buffer is edited: the searches find something else.
BufferModified ==
    \E b \in Buffers :
        /\ b # found
        /\ found' = b
        /\ last' = Idle
        /\ UNCHANGED <<sel, is_widget, doc_link, status, hl_status,
                       PossibleSelectors, OnBeforeCheckCallbacks,
                       OnAfterCheckCallbacks, ViewSelectors, Highlighters,
                       heap, hl_regions, PreemptiveHighlighters>>

\* The view is activated or its buffer modified: the listener refreshes the
\* highlights.
UpdateHighlights(v) ==
    LET res == update_highlights(v)
    IN /\ Commit(res)
       /\ last' = Record("HighlightListenerCommand.update_highlights", v, res,
                         <<>>)
       /\ UNCHANGED sel
       /\ CommandFrame

\* The commands on a view of a window, with the classes a plugin registers
\* once each when it is loaded.
CommandInit ==
    /\ Init
    /\ is_widget = [v \in Views |-> FALSE]

\* The highlight command and its queries, with a PreemptiveHighlight class
\* as the one selector class.
HighlightNext ==
    \/ \E v \in Views : MatchEntity(v)
    \/ \E v \in Views : SelectionModified(v)
    \/ \E c \in PreemptiveClasses : AddPreemptiveSelector(c)
    \/ BufferModified
    \/ \E v \in Views : \E cmd \in HighlightCommands : HighlightCommandRun(v, cmd)
    \/ \E v \in Views : \E cmd \in SubCommands : HighlightCommandQuery(v, cmd)

HighlightSpec == CommandInit /\ [][HighlightNext]_vars

\* The doc_link command and its queries, with a DocLink class and a
\* Highlight class.
DocLinkNext ==
    \/ \E v \in Views : MatchEntity(v)
    \/ \E v \in Views : SelectionModified(v)
    \/ \E c \in {"Doc"} : c \notin Registered /\ AddPossibleSelector(c)
    \/ \E c \in PreemptiveClasses : AddPreemptiveSelector(c)
    \/ \E v \in Views : DocLinkCommandRun(v)
    \/ \E v \in Views : DocLinkCommandQuery(v)

DocLinkSpec == CommandInit /\ [][DocLinkNext]_vars

\* The preemptive_highlight command and its queries.
PreemptiveNext ==
    \/ \E v \in Views : MatchEntity(v)
    \/ \E v \in Views : SelectionModified(v)
    \/ \E c \in PreemptiveClasses : AddPreemptiveSelector(c)
    \/ BufferModified
    \/ \E v \in Views : \E ident \in Idents : PreemptiveHighlightCommandRun(v, ident)
    \/ \E v \in Views : \E ident \in Idents : PreemptiveHighlightCommandQuery(v, ident)

PreemptiveSpec == CommandInit /\ [][PreemptiveNext]_vars

\* Everything that assigns, refreshes or removes a highlighter: the highlight
\* command with its sub-commands, the preemptive command and the listener,
\* on a view of a window or on a widget.
HighlightLifeNext ==
    \/ \E v \in Views : MatchEntity(v)
    \/ \E v \in Views : SelectionModified(v)
    \/ \E c \in PreemptiveClasses : AddPreemptiveSelector(c)
    \/ BufferModified
    \/ \E v \in Views : \E cmd \in {"highlight", "forward", "backward", "clear"} :
          HighlightCommandRun(v, cmd)
    \/ \E v \in Views : \E ident \in Idents : PreemptiveHighlightCommandRun(v, ident)
    \/ \E v \in Views : UpdateHighlights(v)

HighlightLifeSpec == Init /\ [][HighlightLifeNext]_vars

\* ------------------------------------------------------ several views
\* Two views open side by side
IsolationViews == {1, 2}

\* A caller of EntitySelector.update_selector_for_view(view) clears the
\* selector of the view (selector = None).
UpdateSelectorForView(v) ==
    LET res == Ended(update_selector_for_view(Frame, v, None), "return")
    IN /\ Commit(res)
       /\ last' = Record("update_selector_for_view", v, res, <<None>>)
       /\ UNCHANGED <<sel, is_widget, PossibleSelectors,
                      OnBeforeCheckCallbacks, OnAfterCheckCallbacks,
                      found, PreemptiveHighlighters>>

\* A caller of EntitySelector.get_selector_for_view(view)
GetSelectorForView(v) ==
    /\ last' = Record("get_selector_for_view", v, Ended(Frame, "return"),
                      <<get_selector_for_view(Frame, v)>>)
    /\ QueryFrame

\* The user moves the caret of a view: the selection becomes one empty
\* region.
CaretMoved(v) ==
    \E pt \in Points :
        /\ sel[v] # <<<<pt, pt>>>>
        /\ sel' = [sel EXCEPT ![v] = <<<<pt, pt>>>>]
        /\ last' = Idle
        /\ UNCHANGED <<is_widget, doc_link, status, hl_status,
                       PossibleSelectors, OnBeforeCheckCallbacks,
                       OnAfterCheckCallbacks, ViewSelectors, Highlighters, heap,
                       highlight_vars>>

\* Two views of a window, no record yet, with a DocLink class and a
\* Highlight class registered.
IsolationInit ==
    /\ sel \in [IsolationViews -> {<<<<0, 0>>>>}]
    /\ is_widget = [v \in IsolationViews |-> FALSE]
    /\ doc_link = [v \in IsolationViews |-> <<>>]
    /\ status = [v \in IsolationViews |-> NoStatus]
    /\ hl_status = [v \in IsolationViews |-> <<>>]
    /\ PossibleSelectors = <<"Doc", "Hl">>
    /\ OnBeforeCheckCallbacks = ImportedBefore
    /\ OnAfterCheckCallbacks = ImportedAfter
    /\ ViewSelectors = EmptyDict
    /\ Highlighters = EmptyDict
    /\ heap = EmptyDict
    /\ hl_regions = [v \in IsolationViews |-> <<>>]
    /\ found = BufferAtStart
    /\ PreemptiveHighlighters = {}
    /\ last = Idle

IsolationNext ==
    \/ \E v \in IsolationViews : MatchEntity(v)
    \/ \E v \in IsolationViews : CaretMoved(v)
    \/ \E v \in IsolationViews : UpdateSelectorForView(v)
    \/ \E v \in IsolationViews : GetSelectorForView(v)

IsolationSpec == IsolationInit /\ [][IsolationNext]_vars

\* ------------------------------------------------- claims on the commands
\* The step is a run of entityselect_highlight with cmd on view v.
HighlightRunStep(v, cmd) ==
    /\ last'.op = "EntityselectHighlightCommand.run"
    /\ last'.view = v
    /\ last'.result.cmd = cmd

\* The view's active selector is an instance of a Highlight class.
HasHighlightSelector(v) ==
    /\ HasActiveSelector(v)
    /\ Base(heap[ViewSelectors[v].selector].cls) = "Highlight"

\* The view has an assigned highlighter.
HasHighlighter(v) == v \in DOMAIN Highlighters /\ Highlighters[v] # None

\* C12: highlight() on a highlighter h (here the view's active selector,
\* through the 'highlight' command).  When the search finds regions, h is
\* afterwards the highlighter assigned to its view, h.highlight_regions is
\* exactly what was found and that is what is drawn under
\* 'entity_select_highlight'; when it finds none, the view has no assigned
\* highlighter afterwards and the drawn regions and the status entry are
\* erased.
C12_Highlight ==
    [][\A v \in Views :
          (HighlightRunStep(v, "highlight") /\ HasHighlightSelector(v))
          => IF found # <<>>
             THEN /\ v \in DOMAIN Highlighters'
                  /\ Highlighters'[v] # None
                  /\ Highlighters'[v] = ViewSelectors'[v].selector
                  /\ last'.selector_after = last'.pre_selector
                  /\ heap'[Highlighters'[v]].highlight_regions = found
                  /\ hl_regions'[v] = found
             ELSE /\ v \in DOMAIN Highlighters'
                  /\ Highlighters'[v] = None
                  /\ hl_regions'[v] = <<>>
                  /\ hl_status'[v] = <<>>]_vars

\* highlight() has run a second time on a highlighter that already held
\* regions, after the buffer changed.
C12_Witness ==
    /\ last.op = "EntityselectHighlightCommand.run"
    /\ last.result.cmd = "highlight"
    /\ last.outcome = "return"
    /\ last.pre_selector # None
    /\ \E v \in Views :
          /\ last.view = v
          /\ HasHighlighter(v)
          /\ found = <<<<2, 2>>, <<0, 1>>>>
          /\ heap[Highlighters[v]].highlight_regions = found
          /\ hl_regions[v] = found
          /\ hl_status[v] # <<>>

\* C13: is_visible and is_enabled of a sub-command other than 'highlight'
\* answer True exactly when the view has an assigned highlighter, and running
\* such a sub-command on a view without one changes neither the selection,
\* the highlighter registry nor the active selector.
C13_SubCommandsNeedHighlighter ==
    [][\A v \in Views :
          /\ (last'.op = "EntityselectHighlightCommand.is_visible" /\ last'.view = v)
             => /\ last'.result.cmd \in SubCommands
                /\ last'.result.is_visible = HasHighlighter(v)
                /\ last'.result.is_enabled = HasHighlighter(v)
          /\ \A cmd \in SubCommands :
                (HighlightRunStep(v, cmd) /\ ~HasHighlighter(v))
                => /\ last'.outcome = "return"
                   /\ sel' = sel
                   /\ Highlighters' = Highlighters
                   /\ ViewSelectors' = ViewSelectors
                   /\ heap' = heap]_vars

\* A sub-command was run on a view whose highlighter had been cleared, while
\* the view had an active selector and a selection.
C13_Witness ==
    /\ last.op = "EntityselectHighlightCommand.run"
    /\ last.result.cmd = "forward"
    /\ \E v \in Views :
          /\ last.view = v
          /\ v \in DOMAIN Highlighters
          /\ Highlighters[v] = None
          /\ HasActiveSelector(v)
          /\ sel[v] # <<>>

\* The view's active selector is an instance of a DocLink class.
HasDocLinkSelector(v) ==
    /\ v \in DOMAIN ViewSelectors
    /\ ViewSelectors[v].selector # None
    /\ Base(heap[ViewSelectors[v].selector].cls) = "DocLink"

\* C14: DocLinkCommand.is_enabled answers True exactly when the view's active
\* selector is a DocLink (whose enable_doc_link() is true); without an active
\* selector, or with one that is no DocLink, is_enabled answers False,
\* description answers 'DocLink', and run does nothing and raises nothing.
C14_DocLinkCommand ==
    [][\A v \in Views :
          /\ (last'.op = "DocLinkCommand.is_enabled" /\ last'.view = v)
             => /\ last'.outcome = "return"
                /\ last'.result.is_enabled = HasDocLinkSelector(v)
                /\ ~HasDocLinkSelector(v)
                   => last'.result.description = "DocLink"
          /\ (last'.op = "DocLinkCommand.run" /\ last'.view = v
              /\ ~HasDocLinkSelector(v))
             => /\ last'.outcome = "return"
                /\ last'.events = <<>>
                /\ UNCHANGED <<sel, is_widget, doc_link, status, hl_status,
                               PossibleSelectors, OnBeforeCheckCallbacks,
                               OnAfterCheckCallbacks, ViewSelectors,
                               Highlighters, heap, highlight_vars>>]_vars

\* doc_link was asked whether it is enabled while the view's active selector
\* was an instance of a Highlight class.
C14_Witness ==
    /\ last.op = "DocLinkCommand.is_enabled"
    /\ last.result.is_enabled = FALSE
    /\ last.result.description = "DocLink"
    /\ \E v \in Views :
          /\ last.view = v
          /\ HasHighlightSelector(v)

\* The regions of a highlighter, as a set
RegionSet(id) ==
    {heap[id].highlight_regions[i] : i \in 1..Len(heap[id].highlight_regions)}

\* The first and the last of a set of regions in sorted order
FirstRegion(S) == CHOOSE r \in S : \A s \in S : r = s \/ RegionLt(r, s)

LastRegion(S) == CHOOSE r \in S : \A s \in S : r = s \/ RegionLt(s, r)

\* The step is a move of the selection of view v that returned, forward or
\* backward, from a first selection over the regions of the view's
\* highlighter.
MoveStep(v, cmd) ==
    /\ HighlightRunStep(v, cmd)
    /\ HasHighlighter(v)
    /\ last'.outcome = "return"

\* C15 as stated: forward selects the first region whose begin is >= the
\* end of the first selection, or the first region overall when there is
\* none; backward selects the last region whose end is <= the begin of the
\* first selection, or the last region overall when there is none.
C15_MoveToHighlight_AsStated ==
    [][\A v \in Views :
          LET R == RegionSet(Highlighters[v])
              b == begin(sel[v][1])
              e == end(sel[v][1])
              After == {r \in R : begin(r) >= e}
              Before == {r \in R : end(r) <= b}
          IN /\ MoveStep(v, "forward")
                => sel'[v] = <<IF After # {} THEN FirstRegion(After)
                                ELSE FirstRegion(R)>>
             /\ MoveStep(v, "backward")
                => sel'[v] = <<IF Before # {} THEN LastRegion(Before)
                                ELSE LastRegion(R)>>]_vars

\* C15: move_to_highlight replaces the selection with exactly one highlight
\* region.  Forward: the first region whose begin is >= the end of the first
\* selection and whose end is not <= its begin (an empty region at an empty
\* first selection is passed over), or the first region overall when there
\* is none.  Backward: the last region whose end is <= the begin of the
\* first selection, or the last region overall when there is none.
C15_MoveToHighlight ==
    [][\A v \in Views :
          LET R == RegionSet(Highlighters[v])
              b == begin(sel[v][1])
              e == end(sel[v][1])
              After == {r \in R : begin(r) >= e /\ ~(end(r) <= b)}
              Before == {r \in R : end(r) <= b}
          IN /\ MoveStep(v, "forward")
                => sel'[v] = <<IF After # {} THEN FirstRegion(After)
                                ELSE FirstRegion(R)>>
             /\ MoveStep(v, "backward")
                => sel'[v] = <<IF Before # {} THEN LastRegion(Before)
                                ELSE LastRegion(R)>>]_vars

\* A forward move from the empty selection at point 2, where an empty
\* highlight region lies, wrapped around to the first region.
C15_Witness ==
    /\ last.op = "EntityselectHighlightCommand.run"
    /\ last.result.cmd = "forward"
    /\ last.result.sel = <<<<2, 2>>>>
    /\ last.outcome = "return"
    /\ \E v \in Views :
          /\ last.view = v
          /\ HasHighlighter(v)
          /\ <<2, 2>> \in RegionSet(Highlighters[v])
          /\ sel[v] = <<<<0, 1>>>>

\* C16: when PreemptiveHighlightCommand.run has ended, on every path, the
\* view's selection is the selection it had when the command started.
C16_SelectionRestored ==
    [][\A v \in Views :
          (last'.op = "PreemptiveHighlightCommand.run" /\ last'.view = v)
          => sel'[v] = sel[v]]_vars

\* The command constructed a highlighter at a preemptive selection other than
\* the view's selection, and returned.
C16_Witness ==
    /\ last.op = "PreemptiveHighlightCommand.run"
    /\ last.outcome = "return"
    /\ last.made # {}
    /\ \E v \in Views :
          /\ last.view = v
          /\ sel[v] # <<>>
          /\ sel[v] # last.result.ps
          /\ HasHighlighter(v)

\* The selector a ViewSelectors dictionary holds for view v, None without a
\* record
SelectorIn(vs, v) == IF v \in DOMAIN vs THEN vs[v].selector ELSE None

\* C17: when PreemptiveHighlightCommand.run has returned, the view's active
\* selector is the instance (or none) that was active before the command
\* ran, and never the highlighter the command constructed.
C17_SelectorRestored ==
    [][\A v \in Views :
          (/\ last'.op = "PreemptiveHighlightCommand.run"
           /\ last'.view = v
           /\ last'.outcome = "return")
          => /\ last'.selector_after = last'.pre_selector
             /\ last'.selector_after \notin last'.made
             /\ IF SelectorIn(ViewSelectors, v) # None
                THEN /\ SelectorIn(ViewSelectors', v) # None
                     /\ heap'[SelectorIn(ViewSelectors', v)] =
                            heap[SelectorIn(ViewSelectors, v)]
                ELSE SelectorIn(ViewSelectors', v) = None]_vars

\* The command constructed a highlighter, which is now the view's assigned
\* highlighter, while the view's active selector is the one from before.
C17_Witness ==
    /\ last.op = "PreemptiveHighlightCommand.run"
    /\ last.outcome = "return"
    /\ last.made # {}
    /\ last.pre_selector # None
    /\ \E v \in Views :
          /\ last.view = v
          /\ HasHighlighter(v)
          /\ ViewSelectors[v].selector # None
          /\ ViewSelectors[v].selector # Highlighters[v]

\* C18: for a name no class is registered under, get_preemptive_highlighter
\* answers None without raising, so that is_visible / is_enabled answer False
\* and run does nothing.
C18_UnknownIdentAnswersNone ==
    (/\ last.op \in {"PreemptiveHighlightCommand.run",
                     "PreemptiveHighlightCommand.is_visible"}
     /\ last.result.ident \notin PreemptiveHighlighters)
    => /\ last.outcome = "return"
       /\ last.made = {}
       /\ last.op = "PreemptiveHighlightCommand.is_visible"
          => last.result.is_visible = FALSE

\* ------------------------------------------- claims on the life cycles
\* C24: in every match_entity invocation that runs the before-check chain the
\* view's selector has been reset to none first, so every before-check
\* callback is called with selector = None and cls = EntitySelector, also
\* when a selector was active when match_entity was called.
C24_BeforeChainSeesNoSelector ==
    IsMatch =>
        \A i \in At("before") :
            /\ last.events[i].selector = None
            /\ last.events[i].cls = "EntitySelector"

\* match_entity ran the before-check chain on a view that had an active
\* selector when it was called.
C24_Witness ==
    /\ IsMatch
    /\ last.pre_selector # None
    /\ At("before") # {}

\* C21: whenever regions are drawn under 'doc_link' in a view, the view's
\* active selector is a DocLink instance (enable_doc_link() true) whose
\* regions are the drawn ones; every match_entity that starts a new
\* resolution calls DocLink.erase_regions before it resolves, and one that
\* activates a DocLink and returns leaves that instance's regions drawn.
C21_DocLinkRegions ==
    /\ \A v \in Views :
          doc_link[v] # <<>>
          => /\ HasDocLinkSelector(v)
             /\ enable_doc_link(heap[ViewSelectors[v].selector].cls)
             /\ ActiveRegions(v) = doc_link[v]
    /\ (IsMatch /\ At("reset") # {})
       => \E i \in At("before") :
             /\ last.events[i].name = "DocLink.erase_regions"
             /\ \E r \in At("reset") : r < i
             /\ \A j \in At("check_regions") \cup At("resolve") \cup At("enable")
                         \cup At("construct") \cup At("after") : i < j
    /\ \A v \in Views :
          (IsMatch /\ last.view = v /\ last.outcome = "return"
           /\ last.selector_after \in last.made /\ HasDocLinkSelector(v))
          => /\ doc_link[v] = ActiveRegions(v)
             /\ doc_link[v] # <<>>
             /\ \E i \in At("after") :
                   /\ last.events[i].name = "DocLink.add_regions"
                   /\ \A j \in At("construct") : j < i

\* match_entity replaced a DocLink selector, whose regions were drawn, by a
\* selector of another kind: nothing is drawn under 'doc_link' any more.
C21_Witness ==
    /\ IsMatch
    /\ last.pre_selector # None
    /\ At("compare") # {}
    /\ \E i \in At("compare") : Base(last.events[i].cls) = "DocLink"
    /\ last.selector_after \in last.made
    /\ \E v \in Views :
          /\ last.view = v
          /\ HasActiveSelector(v)
          /\ ~HasDocLinkSelector(v)
          /\ doc_link[v] = <<>>

\* C22: after any sequence of highlight(), move_to_highlight, clear,
\* preemptive-highlight commands and update_highlights events, the set of
\* regions drawn under 'entity_select_highlight' is the highlight_regions of
\* the view's assigned highlighter, and is empty when none is assigned.
C22_DrawnEqualsHighlightRegions ==
    \A v \in Views :
        LET drawn == {hl_regions[v][i] : i \in 1..Len(hl_regions[v])}
        IN IF HasHighlighter(v)
           THEN drawn = RegionSet(Highlighters[v])
           ELSE drawn = {}

\* The listener refreshed a view whose assigned highlighter found other
\* regions than before; the view's active selector is another instance.
C22_Witness ==
    /\ last.op = "HighlightListenerCommand.update_highlights"
    /\ last.outcome = "return"
    /\ \E v \in Views :
          /\ last.view = v
          /\ HasHighlighter(v)
          /\ Highlighters[v] # SelectorIn(ViewSelectors, v)
          /\ found = <<<<2, 2>>, <<0, 1>>>>
          /\ hl_regions[v] = <<<<2, 2>>, <<0, 1>>>>

\* The record of view w is after the step what it was before it: present or
\* absent alike, with the same stored scope and cached list and the same
\* selector (instances are compared by what they hold: their numbers are
\* reassigned when a handler ends).
SameRecord(w) ==
    /\ (w \in DOMAIN ViewSelectors') = (w \in DOMAIN ViewSelectors)
    /\ w \in DOMAIN ViewSelectors
       => /\ ViewSelectors'[w].scope = ViewSelectors[w].scope
          /\ ViewSelectors'[w].possible_selectors =
                 ViewSelectors[w].possible_selectors
          /\ ViewSelectors'[w].possible_selectors_hash =
                 ViewSelectors[w].possible_selectors_hash
          /\ IF ViewSelectors[w].selector = None
             THEN ViewSelectors'[w].selector = None
             ELSE /\ ViewSelectors'[w].selector # None
                  /\ heap'[ViewSelectors'[w].selector] =
                         heap[ViewSelectors[w].selector]

\* C23: get_selector_for_view(v) answers the selector most recently assigned
\* to v (by update_selector_for_view or by constructing a selector on v), None
\* without a record or an assignment; assigning or clearing the selector of
\* one view changes neither the selector, the cached list nor the stored
\* scope of another view.
C23_PerViewIsolation ==
    [][\A v \in IsolationViews :
          LET AssignStep ==
                  /\ last'.op \in {"match_entity", "update_selector_for_view"}
                  /\ last'.view = v
          IN
          /\ (last'.op = "get_selector_for_view" /\ last'.view = v)
             => last'.result[1] = SelectorIn(ViewSelectors, v)
          /\ AssignStep
             => /\ \A w \in IsolationViews \ {v} : SameRecord(w)
                /\ (SelectorIn(ViewSelectors', v) = None)
                       = (last'.selector_after = None)
                /\ last'.op = "update_selector_for_view"
                   => SelectorIn(ViewSelectors', v) = None
                /\ SelectorIn(ViewSelectors', v) # None
                   => /\ heap'[ViewSelectors'[v].selector].view = v
                      /\ last'.selector_after \in last'.made
                         => \E j \in 1..Len(last'.events) :
                               /\ last'.events[j].kind = "construct"
                               /\ last'.events[j].selector = last'.selector_after
                               /\ last'.events[j].name =
                                      heap'[ViewSelectors'[v].selector].cls
          /\ ~AssignStep => SameRecord(v)
          /\ v \notin DOMAIN ViewSelectors
             => get_selector_for_view(Frame, v) = None]_vars

\* The selector of view 1 was cleared while view 2 has a selector of its own
\* and a cached list other than that of view 1.
C23_Witness ==
    /\ last.op = "update_selector_for_view"
    /\ last.view = 1
    /\ last.pre_selector # None
    /\ SelectorIn(ViewSelectors, 1) = None
    /\ SelectorIn(ViewSelectors, 2) # None
    /\ heap[ViewSelectors[2].selector].view = 2
    /\ ViewSelectors[1].possible_selectors # ViewSelectors[2].possible_selectors

====
